---------------------------- MODULE Spec2Model ----------------------------
(***************************************************************************)
(* Model of the hybrid retriever of Atlas-GRAG (src/src/retriever/hybrid.py)*)
(*                                                                         *)
(* Text is modelled as a sequence of one-character strings wherever the    *)
(* code inspects characters (the model response scanned by the regular     *)
(* expression and decoded by json.loads), and as a TLA+ string wherever    *)
(* the code only concatenates (names, formatted lines, query text).        *)
(*                                                                         *)
(* Python values of mixed type are tagged records:                         *)
(*   [t |-> "str", v |-> "a"], [t |-> "num", v |-> "11"],                  *)
(*   [t |-> "arr", v |-> <<...>>], [t |-> "none"].                         *)
(***************************************************************************)
EXTENDS Integers, Sequences, FiniteSets, TLC

VARIABLES
    retriever,  \* the HybridRetriever's fields, set by __init__
    call,       \* the frame of the retrieve / retrieve_with_fallback call
    calls,      \* the frames of the calls in flight together (SpecConc)
    fnIn,       \* input of the function under check (function specifications)
    fnOut,      \* its output
    fnPc        \* "ready" before the function is applied, "done" after

vars == <<retriever, call, calls, fnIn, fnOut, fnPc>>

(***************************************************************************)
(* Bounds of the model.                                                    *)
(***************************************************************************)
\* longest model response, in characters, fed to the entity extractor
MaxLen == 6
\* most documents the vector store returns to one query
MaxDocs == 1
\* most entities passed to a direct call of the path finder
MaxEntities == 3
\* most chunks and most paths of a RetrievalResult handed to the renderer
MaxChunks == 2
MaxPaths == 2
\* most neighbor records handed to a direct call of the formatter
MaxNeighbors == 2
\* calls of retrieve / retrieve_with_fallback in flight together
NumCalls == 2
\* most pieces of an entity text interpolated into a query
MaxEntityLen == 2

(***************************************************************************)
(* Generic helpers.                                                        *)
(***************************************************************************)
RECURSIVE Join(_, _)
\* Python's sep.join(parts) for a sequence of strings
Join(parts, sep) ==
    IF parts = <<>> THEN ""
    ELSE IF Len(parts) = 1 THEN parts[1]
    ELSE parts[1] \o sep \o Join(Tail(parts), sep)

\* all sequences over S of length at most n
SeqsUpTo(S, n) == UNION {[1..k -> S] : k \in 0..n}

\* the value of a Python None, and of a Python str
PyNone == [t |-> "none"]
Str(s) == [t |-> "str", v |-> s]

\* dict.get(key, default) on a mapping modelled as a function on its keys
Get(row, key, default) == IF key \in DOMAIN row THEN row[key] ELSE default

(***************************************************************************)
(* json.loads, restricted to the characters of Alphabet: arrays, strings   *)
(* without escapes, and integers written with the digit 1.                 *)
(***************************************************************************)
Alphabet == {"[", "]", ",", "\"", "a", "1"}

JFail == [ok |-> FALSE, val |-> PyNone, next |-> 0]

RECURSIVE ScanString(_, _, _)
\* the string literal whose opening quote is at i - 1
ScanString(s, i, acc) ==
    IF i > Len(s) THEN JFail
    ELSE IF s[i] = "\"" THEN [ok |-> TRUE, val |-> Str(acc), next |-> i + 1]
    ELSE ScanString(s, i + 1, acc \o s[i])

RECURSIVE ScanNumber(_, _, _)
\* the integer literal whose first digit is at i - 1
ScanNumber(s, i, acc) ==
    IF i <= Len(s) /\ s[i] = "1" THEN ScanNumber(s, i + 1, acc \o s[i])
    ELSE [ok |-> TRUE, val |-> [t |-> "num", v |-> acc], next |-> i]

RECURSIVE ParseValue(_, _)
RECURSIVE ParseElems(_, _, _)
\* one JSON value starting at position i
ParseValue(s, i) ==
    IF i > Len(s) THEN JFail
    ELSE IF s[i] = "\"" THEN ScanString(s, i + 1, "")
    ELSE IF s[i] = "1" THEN ScanNumber(s, i + 1, "1")
    ELSE IF s[i] = "["
         THEN IF i + 1 <= Len(s) /\ s[i + 1] = "]"
              THEN [ok |-> TRUE, val |-> [t |-> "arr", v |-> <<>>], next |-> i + 2]
              ELSE ParseElems(s, i + 1, <<>>)
    ELSE JFail

\* the elements of an array from position i on, acc the elements read so far
ParseElems(s, i, acc) ==
    LET e == ParseValue(s, i) IN
    IF ~e.ok \/ e.next > Len(s) THEN JFail
    ELSE IF s[e.next] = "," THEN ParseElems(s, e.next + 1, Append(acc, e.val))
    ELSE IF s[e.next] = "]"
         THEN [ok |-> TRUE, val |-> [t |-> "arr", v |-> Append(acc, e.val)],
               next |-> e.next + 1]
    ELSE JFail

\* json.loads(s): one value and nothing after it, else JSONDecodeError (~ok)
JsonLoads(s) ==
    LET r == ParseValue(s, 1) IN
    IF r.ok /\ r.next = Len(s) + 1 THEN r ELSE JFail

RECURSIVE PyRepr(_)
\* repr(v) of a decoded JSON value
PyRepr(v) ==
    IF v.t = "str" THEN "'" \o v.v \o "'"
    ELSE IF v.t = "num" THEN v.v
    ELSE IF v.t = "arr"
         THEN "[" \o Join([k \in 1..Len(v.v) |-> PyRepr(v.v[k])], ", ") \o "]"
    ELSE "None"

\* str(v) of a decoded JSON value
PyStr(v) == IF v.t = "str" THEN v.v ELSE PyRepr(v)

(***************************************************************************)
(* re.search(r"\[.*\]", response, re.DOTALL): the leftmost match starts at *)
(* the first "[" and the greedy .* runs to the last "]" of the text.       *)
(***************************************************************************)
NoMatch == [found |-> FALSE, text |-> <<>>]

ReSearch(s) ==
    LET opens == {i \in 1..Len(s) : s[i] = "["} IN
    IF opens = {} THEN NoMatch
    ELSE LET first == CHOOSE i \in opens : \A k \in opens : i <= k
             closes == {j \in 1..Len(s) : s[j] = "]" /\ j > first}
         IN IF closes = {} THEN NoMatch
            ELSE LET last == CHOOSE j \in closes : \A k \in closes : k <= j
                 IN [found |-> TRUE, text |-> SubSeq(s, first, last)]

(***************************************************************************)
(* HybridRetriever._extract_entities.  The model's answer is either        *)
(* [kind |-> "raise"] (self._llm.invoke raised) or                         *)
(* [kind |-> "text", text |-> <<characters>>].                             *)
(* The result is [raised |-> FALSE, value |-> <<entity names>>]; raised    *)
(* says whether an exception leaves the method.                            *)
(***************************************************************************)
LLMRaise == [kind |-> "raise", text |-> <<>>]
LLMText(s) == [kind |-> "text", text |-> s]

Returned(v) == [raised |-> FALSE, value |-> v]
Raised == [raised |-> TRUE, value |-> <<>>]

\* a variant that lets JSONDecodeError leave the method
ExtractEntitiesUncaught(response) ==
    IF response.kind = "raise" THEN Returned(<<>>)
    ELSE LET json_match == ReSearch(response.text) IN
         IF json_match.found
         THEN LET entities == JsonLoads(json_match.text) IN
              IF ~entities.ok THEN Raised
              ELSE Returned([k \in 1..Len(entities.val.v) |-> PyStr(entities.val.v[k])])
         ELSE Returned(<<>>)

ExtractEntities(response) ==
    IF response.kind = "raise" THEN Returned(<<>>)          \* except Exception
    ELSE LET json_match == ReSearch(response.text) IN
         IF json_match.found
         THEN LET entities == JsonLoads(json_match.text) IN
              IF ~entities.ok THEN Returned(<<>>)           \* except Exception
              ELSE IF entities.val.t = "arr"                \* isinstance(.., list)
                   THEN Returned([k \in 1..Len(entities.val.v) |->
                                       PyStr(entities.val.v[k])])
                   ELSE Returned(<<>>)
         ELSE Returned(<<>>)

(***************************************************************************)
(* Python truthiness and text conversion of the scalars found in rows.     *)
(***************************************************************************)
Truthy(v) == v.t = "str" /\ v.v # ""

\* how an f-string renders a scalar
FStr(v) == IF v.t = "str" THEN v.v ELSE "None"

\* a mapping row (a dict) and the test for it; any other row is not a dict
Row(m) == [t |-> "dict", v |-> m]
IsDict(row) == row.t = "dict"

\* str.join over a list of scalars: TypeError (raised) on an element not a str
JoinPy(parts, sep) ==
    IF \E k \in 1..Len(parts) : parts[k].t # "str" THEN [raised |-> TRUE, value |-> ""]
    ELSE [raised |-> FALSE, value |-> Join([k \in 1..Len(parts) |-> parts[k].v], sep)]

(***************************************************************************)
(* The retriever's configuration (RetrievalConfig, ChromaConfig defaults). *)
(***************************************************************************)
VectorTopK == 5
GraphMaxHops == 2
CollectionName == "supply_chain_docs"

\* HybridRetriever.__init__
NewRetriever ==
    [_vector_top_k |-> VectorTopK, _max_hops |-> GraphMaxHops,
     _collection_name |-> CollectionName]

\* ENTITY_EXTRACTION_PROMPT.format(query=query), the fixed preamble elided
Prompt(query) == "Question: \"" \o query \o "\"\nAnswer:"

(***************************************************************************)
(* GraphPath and GraphPath.to_string.                                      *)
(***************************************************************************)
GraphPath(nodes, relationships, path_length) ==
    [nodes |-> nodes, relationships |-> relationships, path_length |-> path_length]

\* parts of to_string: node, "-[rel]->", node, ...
PathParts(path) ==
    LET n == Len(path.nodes)
        m == Len(path.relationships)
        part(i) == IF i <= m
                   THEN <<path.nodes[i], Str("-[" \o FStr(path.relationships[i]) \o "]->")>>
                   ELSE <<path.nodes[i]>>
        F[i \in 0..n] == IF i = 0 THEN <<>> ELSE F[i - 1] \o part(i)
    IN F[n]

\* [raised, value]: " ".join raises TypeError when a node name is None
to_string(path) ==
    IF path.nodes = <<>> THEN [raised |-> FALSE, value |-> ""]
    ELSE JoinPy(PathParts(path), " ")

(***************************************************************************)
(* HybridRetriever._retrieve_vector and the chunk filter of retrieve.      *)
(* A vector response is [kind |-> "raise"] or [kind |-> "rows", rows].     *)
(***************************************************************************)
StoreRaise == [kind |-> "raise", rows |-> <<>>]
StoreRows(rows) == [kind |-> "rows", rows |-> rows]

RetrieveVector(response) ==
    IF response.kind = "raise" THEN <<>> ELSE response.rows

\* [doc.get("document", "") for doc in vector_docs if doc.get("document")]
VectorChunks(vector_docs) ==
    LET kept == SelectSeq(vector_docs, LAMBDA doc : Truthy(Get(doc.v, "document", PyNone)))
    IN [k \in 1..Len(kept) |-> Get(kept[k].v, "document", Str("")).v]

(***************************************************************************)
(* HybridRetriever._build_neighbor_query and _retrieve_graph_neighbors.    *)
(***************************************************************************)
BuildNeighborQuery(entity, max_hops) ==
    "MATCH (n) WHERE n.name =~ '(?i).*" \o entity \o ".*' "
    \o "MATCH path = (n)-[*1.." \o ToString(max_hops) \o "]-(neighbor) "
    \o "WHERE neighbor <> n "
    \o "RETURN DISTINCT n.name AS source, neighbor.name AS target, "
    \o "[r IN relationships(path) | type(r)] AS relationships, "
    \o "length(path) AS path_length ORDER BY path_length LIMIT 10"

RetrieveGraphNeighbors(response) ==
    IF response.kind = "raise" THEN <<>> ELSE response.rows

(***************************************************************************)
(* HybridRetriever._get_paths_between_entities.                            *)
(***************************************************************************)
\* len(entities) < 2 returns before any query
PathQueryIssued(entities) == Len(entities) >= 2

PathQuery(entities, max_hops) ==
    "MATCH (a), (b) WHERE a.name =~ '(?i).*" \o entities[1] \o ".*' "
    \o "AND b.name =~ '(?i).*" \o entities[2] \o ".*' "
    \o "MATCH path = shortestPath((a)-[*.." \o ToString(max_hops + 1) \o "]-(b)) "
    \o "RETURN [n IN nodes(path) | n.name] AS nodes, "
    \o "[r IN relationships(path) | type(r)] AS relationships, "
    \o "length(path) AS path_length LIMIT 3"

\* GraphPath(nodes=result.get("nodes", []), ...) of one row
PathOfRow(result) ==
    GraphPath(Get(result.v, "nodes", <<>>),
              Get(result.v, "relationships", <<>>),
              Get(result.v, "path_length", 0))

RECURSIVE AppendPaths(_, _)
\* the for loop over the rows: a row that is no dict raises inside the try,
\* which ends the loop and keeps the paths appended so far
AppendPaths(paths, results) ==
    IF results = <<>> THEN paths
    ELSE IF ~IsDict(Head(results)) THEN paths
    ELSE AppendPaths(Append(paths, PathOfRow(Head(results))), Tail(results))

GetPathsBetweenEntities(entities, response) ==
    IF ~PathQueryIssued(entities) THEN <<>>
    ELSE IF response.kind = "raise" THEN <<>>
    ELSE AppendPaths(<<>>, response.rows)

(***************************************************************************)
(* HybridRetriever._format_graph_context.                                  *)
(***************************************************************************)
\* key = f"{source}-{target}"
DedupKey(source, target) == source \o "-" \o target

\* f"- {source} --[{rel_str}]--> {target}"
NeighborLine(source, rel_str, target) ==
    "- " \o source \o " --[" \o rel_str \o "]--> " \o target

RECURSIVE NeighborLines(_, _, _)
\* the loop over the neighbor records; [raised, value |-> lines]
NeighborLines(neighbors, seen, lines) ==
    IF neighbors = <<>> THEN [raised |-> FALSE, value |-> lines]
    ELSE LET neighbor == Head(neighbors) IN
         IF ~IsDict(neighbor) THEN [raised |-> TRUE, value |-> lines]
         ELSE LET source == Get(neighbor.v, "source", Str(""))
                  target == Get(neighbor.v, "target", Str(""))
                  rels == Get(neighbor.v, "relationships", <<>>)
              IN IF Truthy(source) /\ Truthy(target)
                    /\ DedupKey(source.v, target.v) \notin seen
                 THEN LET rel_str == IF rels # <<>> THEN JoinPy(rels, " -> ")
                                     ELSE [raised |-> FALSE, value |-> "RELATED"]
                      IN IF rel_str.raised THEN [raised |-> TRUE, value |-> lines]
                         ELSE NeighborLines(Tail(neighbors),
                                  seen \cup {DedupKey(source.v, target.v)},
                                  Append(lines,
                                         NeighborLine(source.v, rel_str.value, target.v)))
                 ELSE NeighborLines(Tail(neighbors), seen, lines)

RECURSIVE PathLines(_, _)
\* the loop over the paths; [raised, value |-> lines]
PathLines(paths, lines) ==
    IF paths = <<>> THEN [raised |-> FALSE, value |-> lines]
    ELSE LET text == to_string(Head(paths)) IN
         IF text.raised THEN [raised |-> TRUE, value |-> lines]
         ELSE PathLines(Tail(paths), Append(lines, "- Path: " \o text.value))

\* [raised, value |-> the formatted text]
FormatGraphContext(neighbors, paths) ==
    LET n == NeighborLines(neighbors, {}, <<>>) IN
    IF n.raised THEN [raised |-> TRUE, value |-> ""]
    ELSE LET l == PathLines(paths, n.value) IN
         IF l.raised THEN [raised |-> TRUE, value |-> ""]
         ELSE [raised |-> FALSE, value |-> Join(l.value, "\n")]

(***************************************************************************)
(* The frame of one call of retrieve or retrieve_with_fallback.            *)
(*   pc: "idle", then the sub-call the call is about to make ("extract",   *)
(*       "vector", "neighbors", "paths"), then "done" (returned result) or *)
(*       "raised" (an exception left the call).                            *)
(*   log: the sub-calls made and the methods invoked, in order.            *)
(***************************************************************************)
\* RetrievalResult(query=query)
RetrievalResult(query) ==
    [query |-> query, vector_chunks |-> <<>>, graph_context |-> "",
     entities |-> <<>>, graph_paths |-> <<>>]

IdleFrame ==
    [pc |-> "idle", entry |-> "none", query |-> "", include_graph |-> FALSE,
     entities |-> <<>>, i |-> 0, all_neighbors |-> <<>>,
     result |-> RetrievalResult(""), log |-> <<>>]

Ev(op, arg, out) == [op |-> op, arg |-> arg, out |-> out]

\* an entry point that extracts whatever include_graph says
ExtractRequestedAlways(include_graph) == TRUE

\* if include_graph:
ExtractRequested(include_graph) == include_graph

\* a guard that runs the graph stage whenever graph inclusion was requested
GraphStageIfRequested(c) == c.include_graph

\* if entities:
GraphStage(c) == c.entities # <<>>

\* a loop that stops one entity short
LoopOrPathsOffByOne(c) ==
    IF c.i < Len(c.entities) THEN [c EXCEPT !.pc = "neighbors"]
    ELSE [c EXCEPT !.pc = "paths"]

\* the frame at the top of the loop over the entities, or past it
LoopOrPaths(c) ==
    IF c.i <= Len(c.entities) THEN [c EXCEPT !.pc = "neighbors"]
    ELSE [c EXCEPT !.pc = "paths"]

\* retrieve, lines 360-368: up to the call of _extract_entities
RetrieveEnter(c, entry, query, include_graph) ==
    [c EXCEPT !.entry = entry, !.query = query, !.include_graph = include_graph,
              !.result = RetrievalResult(query),
              !.entities = <<>>,
              !.pc = IF ExtractRequested(include_graph) THEN "extract" ELSE "vector"]

\* a probe whose exception is taken for a healthy store
FallbackIncludeGraphOnRaise(probe) == probe # "unhealthy"

\* retrieve_with_fallback: graph inclusion after the probe
FallbackIncludeGraph(probe) == probe = "healthy"

\* retrieve_with_fallback: the probe, then retrieve up to its first sub-call.
\* (The vector-only call made on an unhealthy probe sits inside the try; it
\* raises only on a vector record that is no mapping, which the vector
\* store's interface excludes.)
FallbackEnter(c, query, probe) ==
    RetrieveEnter([c EXCEPT !.log = Append(@, Ev("graph.is_healthy", <<>>, probe))],
                  "retrieve_with_fallback", query, FallbackIncludeGraph(probe))

\* retrieve, lines 364-366: entities = self._extract_entities(query)
ExtractStep(c, response) ==
    LET r == ExtractEntities(response)
        logged == c.log \o <<Ev("_extract_entities", c.query, "call"),
                             Ev("llm.invoke", Prompt(c.query), response.kind)>>
    IN IF r.raised THEN [c EXCEPT !.log = logged, !.pc = "raised"]
       ELSE [c EXCEPT !.log = logged, !.entities = r.value,
                      !.result.entities = r.value, !.pc = "vector"]

\* retrieve, lines 371-379: vector retrieval, then the test of entities
VectorStep(r, c, response) ==
    LET vector_docs == RetrieveVector(response)
        d == [c EXCEPT !.log = Append(@,
                          Ev("vector.query_similar",
                             [collection_name |-> r._collection_name,
                              query_text |-> c.query,
                              n_results |-> r._vector_top_k],
                             response.kind)),
                       !.result.vector_chunks = VectorChunks(vector_docs),
                       !.all_neighbors = <<>>,
                       !.i = 1]
    IN IF GraphStage(d) THEN LoopOrPaths(d) ELSE [d EXCEPT !.pc = "done"]

\* a loop that puts each lookup's records before those gathered so far
NeighborStepPrepend(r, c, response) ==
    LET entity == c.entities[c.i]
        neighbors == RetrieveGraphNeighbors(response)
    IN LoopOrPaths(
         [c EXCEPT !.log = @ \o <<Ev("_retrieve_graph_neighbors", entity, "call"),
                                  Ev("graph.execute_query",
                                     BuildNeighborQuery(entity, r._max_hops),
                                     response.kind)>>,
                   !.all_neighbors = neighbors \o @,
                   !.i = @ + 1])

\* retrieve, lines 381-383: one turn of the loop over the entities
NeighborStep(r, c, response) ==
    LET entity == c.entities[c.i]
        neighbors == RetrieveGraphNeighbors(response)
    IN LoopOrPaths(
         [c EXCEPT !.log = @ \o <<Ev("_retrieve_graph_neighbors", entity, "call"),
                                  Ev("graph.execute_query",
                                     BuildNeighborQuery(entity, r._max_hops),
                                     response.kind)>>,
                   !.all_neighbors = @ \o neighbors,
                   !.i = @ + 1])

\* a path finder without the guard on the number of entities, which anchors
\* the query at the first and the last entity
GetPathsLoggedNoGuard(r, entities, response) ==
    IF entities = <<>> THEN [paths |-> <<>>, log |-> <<>>]
    ELSE [paths |-> IF response.kind = "raise" THEN <<>>
                    ELSE AppendPaths(<<>>, response.rows),
          log |-> <<Ev("graph.execute_query",
                       PathQuery(<<entities[1], entities[Len(entities)]>>, r._max_hops),
                       response.kind)>>]

\* a path finder that anchors the query at the last two entities
GetPathsLoggedLastTwo(r, entities, response) ==
    [paths |-> GetPathsBetweenEntities(entities, response),
     log |-> IF PathQueryIssued(entities)
             THEN <<Ev("graph.execute_query",
                       PathQuery(<<entities[Len(entities) - 1],
                                   entities[Len(entities)]>>, r._max_hops),
                       response.kind)>>
             ELSE <<>>]

\* _get_paths_between_entities with the query it sends: [paths, log]
GetPathsLogged(r, entities, response) ==
    [paths |-> GetPathsBetweenEntities(entities, response),
     log |-> IF PathQueryIssued(entities)
             THEN <<Ev("graph.execute_query",
                       PathQuery(entities, r._max_hops), response.kind)>>
             ELSE <<>>]

\* retrieve, lines 386-392: the path finder, the formatter, the return
PathsStep(r, c, response) ==
    LET found == GetPathsLogged(r, c.entities, response)
        paths == found.paths
        text == FormatGraphContext(c.all_neighbors, paths)
        logged == c.log
                  \o <<Ev("_get_paths_between_entities", c.entities, "call")>>
                  \o found.log
                  \o <<Ev("_format_graph_context", <<>>, "call")>>
    IN IF text.raised
       THEN [c EXCEPT !.log = logged, !.result.graph_paths = paths, !.pc = "raised"]
       ELSE [c EXCEPT !.log = logged, !.result.graph_paths = paths,
                      !.result.graph_context = text.value, !.pc = "done"]

\* a direct call of _get_paths_between_entities(entities); the frame's
\* result.graph_paths holds the paths it returns
FindPathsCall(r, c, entities, response) ==
    LET found == GetPathsLogged(r, entities, response) IN
    [c EXCEPT !.entry = "_get_paths_between_entities", !.entities = entities,
              !.log = <<Ev("_get_paths_between_entities", entities, "call")>>
                      \o found.log,
              !.result.graph_paths = found.paths, !.pc = "done"]

(***************************************************************************)
(* The environment: what the callers pass and what the model, the vector   *)
(* store and the graph store answer.                                       *)
(***************************************************************************)
Questions == {"q1", "q2"}

\* entity sequences passed to the path finder when it is called directly
EntityNames == {"a", "b"}
EntitySeqs == SeqsUpTo(EntityNames, MaxEntities)

\* self._graph.is_healthy(): truthy, falsy, or an exception
ProbeOutcomes == {"healthy", "unhealthy", "raise"}

\* answers of the model to the extraction prompt
LLMResponses ==
    { LLMRaise,
      LLMText(<<"n", "o">>),                                       \* no
      LLMText(<<"[", "]">>),                                       \* []
      LLMText(<<"[", "\"", "a", "\"", "]">>),                      \* ["a"]
      LLMText(<<"x", "[", "\"", "a", "\"", ",", "\"", "b", "\"", "]", "x">>),
                                                                   \* x["a","b"]x
      LLMText(<<"[", "\"", "a", "\"", ",", "\"", "b", "\"", ",",
                "\"", "c", "\"", "]">>),                           \* ["a","b","c"]
      LLMText(<<"[", "1", "]", "]">>) }                            \* [1]]

\* records of the vector store: with a text, with an empty text, without one
DocShapes ==
    { Row([id |-> Str("doc1"), document |-> Str("Singapore strike")]),
      Row([id |-> Str("doc2"), document |-> Str("")]),
      Row([id |-> Str("doc3")]) }

VectorResponses == {StoreRaise} \cup {StoreRows(d) : d \in SeqsUpTo(DocShapes, MaxDocs)}

\* rows of the neighbor query
NeighborAB ==
    Row([source |-> Str("A"), target |-> Str("B"),
         relationships |-> <<Str("OPERATES_AT")>>, path_length |-> 1])
NeighborAB2 ==
    Row([source |-> Str("A"), target |-> Str("B"),
         relationships |-> <<Str("AFFECTS"), Str("DEPENDS_ON")>>, path_length |-> 2])
NeighborBC ==
    Row([source |-> Str("B"), target |-> Str("C"),
         relationships |-> <<>>, path_length |-> 1])
\* a row of another shape, as the mocked store of the tests returns
NeighborOther == Row([name |-> Str("Singapore")])
\* a row whose neighbor node has no name property
NeighborNoName ==
    Row([source |-> Str("A"), target |-> PyNone,
         relationships |-> <<Str("OPERATES_AT")>>, path_length |-> 1])

NeighborResponses ==
    { StoreRaise, StoreRows(<<>>), StoreRows(<<NeighborAB>>),
      StoreRows(<<NeighborBC, NeighborAB2>>),
      StoreRows(<<NeighborOther, NeighborNoName>>) }

\* rows of the path query
PathRowGood ==
    Row([nodes |-> <<Str("A"), Str("X"), Str("B")>>,
         relationships |-> <<Str("SHIPS_TO"), Str("SUPPLIES")>>, path_length |-> 2])
\* a row with none of the three fields
PathRowEmpty == Row([name |-> Str("Singapore")])
\* a row whose fields disagree
PathRowInconsistent ==
    Row([nodes |-> <<Str("A"), Str("B")>>, relationships |-> <<>>, path_length |-> 3])
\* a path through a node that has no name property
PathRowNoName ==
    Row([nodes |-> <<Str("A"), PyNone, Str("B")>>,
         relationships |-> <<Str("SHIPS_TO"), Str("SUPPLIES")>>, path_length |-> 2])

PathResponses ==
    { StoreRaise, StoreRows(<<>>), StoreRows(<<PathRowGood>>),
      StoreRows(<<PathRowEmpty>>), StoreRows(<<PathRowInconsistent>>),
      StoreRows(<<PathRowNoName>>), StoreRows(<<PathRowGood, PyNone>>) }

(***************************************************************************)
(* Spec: one call of retrieve or retrieve_with_fallback on a constructed   *)
(* retriever, one action per sub-call the call makes.                      *)
(***************************************************************************)
Init ==
    /\ retriever = NewRetriever
    /\ call = IdleFrame
    /\ calls = <<>>
    /\ fnIn = <<>>
    /\ fnOut = <<>>
    /\ fnPc = "unused"

\* retrieve(query, include_graph)
Retrieve ==
    /\ call.pc = "idle"
    /\ \E query \in Questions, include_graph \in BOOLEAN :
          call' = RetrieveEnter(call, "retrieve", query, include_graph)
    /\ UNCHANGED <<retriever, calls, fnIn, fnOut, fnPc>>

\* retrieve_with_fallback(query)
RetrieveWithFallback ==
    /\ call.pc = "idle"
    /\ \E query \in Questions, probe \in ProbeOutcomes :
          call' = FallbackEnter(call, query, probe)
    /\ UNCHANGED <<retriever, calls, fnIn, fnOut, fnPc>>

Extract ==
    /\ call.pc = "extract"
    /\ \E response \in LLMResponses : call' = ExtractStep(call, response)
    /\ UNCHANGED <<retriever, calls, fnIn, fnOut, fnPc>>

Vector ==
    /\ call.pc = "vector"
    /\ \E response \in VectorResponses : call' = VectorStep(retriever, call, response)
    /\ UNCHANGED <<retriever, calls, fnIn, fnOut, fnPc>>

Neighbors ==
    /\ call.pc = "neighbors"
    /\ \E response \in NeighborResponses : call' = NeighborStep(retriever, call, response)
    /\ UNCHANGED <<retriever, calls, fnIn, fnOut, fnPc>>

Paths ==
    /\ call.pc = "paths"
    /\ \E response \in PathResponses : call' = PathsStep(retriever, call, response)
    /\ UNCHANGED <<retriever, calls, fnIn, fnOut, fnPc>>

\* _get_paths_between_entities(entities), called on its own
FindPaths ==
    /\ call.pc = "idle"
    /\ \E entities \in EntitySeqs, response \in PathResponses :
          call' = FindPathsCall(retriever, call, entities, response)
    /\ UNCHANGED <<retriever, calls, fnIn, fnOut, fnPc>>

Next ==
    \/ Retrieve \/ RetrieveWithFallback \/ Extract \/ Vector \/ Neighbors \/ Paths
    \/ FindPaths

Spec == Init /\ [][Next]_vars

(***************************************************************************)
(* SpecExtract: _extract_entities applied to every answer of the model of  *)
(* at most MaxLen characters over Alphabet, and to a raising model call.   *)
(***************************************************************************)
InitExtract ==
    /\ retriever = NewRetriever
    /\ call = IdleFrame
    /\ calls = <<>>
    /\ fnIn \in {LLMRaise} \cup {LLMText(s) : s \in SeqsUpTo(Alphabet, MaxLen)}
    /\ fnOut = Returned(<<>>)
    /\ fnPc = "ready"

ApplyExtract ==
    /\ fnPc = "ready"
    /\ fnOut' = ExtractEntities(fnIn)
    /\ fnPc' = "done"
    /\ UNCHANGED <<retriever, call, calls, fnIn>>

NextExtract == ApplyExtract

SpecExtract == InitExtract /\ [][NextExtract]_vars

(***************************************************************************)
(* Vocabulary of the properties.                                           *)
(***************************************************************************)
\* the events of the call's log made by op
Events(op) == SelectSeq(call.log, LAMBDA e : e.op = op)
Count(op) == Len(Events(op))

\* the call is one of retrieve, directly or through retrieve_with_fallback
InRetrieve == call.entry \in {"retrieve", "retrieve_with_fallback"}
\* the call has ended, by returning or by an exception
Terminated == call.pc \in {"done", "raised"}
\* the result a vector-only retrieval of query returns for the given chunks
VectorOnlyResult(query, chunks) ==
    [RetrievalResult(query) EXCEPT !.vector_chunks = chunks]

\* every sub-call of the call failed
AllSubCallsFailed ==
    \A k \in 1..Len(call.log) :
        call.log[k].op \in {"llm.invoke", "vector.query_similar", "graph.execute_query"}
            => call.log[k].out = "raise"

(***************************************************************************)
(* C1. retrieve never raises and always ends with a RetrievalResult,       *)
(* whatever the sub-calls do (the model raising or answering unparsable    *)
(* text, the vector store raising, a graph query raising or returning rows *)
(* of any shape); when every sub-call fails the result has no chunks, no   *)
(* entities and an empty graph context.                                    *)
(***************************************************************************)
C1_RetrieveNeverRaises ==
    InRetrieve =>
        /\ call.pc # "raised"
        /\ (call.pc = "done" /\ AllSubCallsFailed =>
                /\ call.result.vector_chunks = <<>>
                /\ call.result.entities = <<>>
                /\ call.result.graph_context = "")

(***************************************************************************)
(* C2. retrieve_with_fallback probes the graph store's health exactly      *)
(* once, before any other sub-call, and then runs retrieve(question, h)    *)
(* with h true only for a probe that returned healthy; after an unhealthy  *)
(* or raising probe the call makes no model call and no graph query and    *)
(* returns the vector-only result.                                         *)
(***************************************************************************)
C2_FallbackProbesThenRetrieves ==
    (call.entry = "retrieve_with_fallback") =>
        /\ Len(call.log) >= 1
        /\ call.log[1].op = "graph.is_healthy"
        /\ Count("graph.is_healthy") = 1
        /\ call.include_graph = (call.log[1].out = "healthy")
        \* right after the probe the frame is the one retrieve(question, h) starts in
        /\ (Len(call.log) = 1 =>
              [call EXCEPT !.log = <<>>]
                = RetrieveEnter(IdleFrame, "retrieve_with_fallback", call.query,
                                call.log[1].out = "healthy"))
        /\ (call.log[1].out # "healthy" =>
              /\ Count("llm.invoke") = 0
              /\ Count("_extract_entities") = 0
              /\ Count("graph.execute_query") = 0
              /\ call.pc # "raised"
              /\ (call.pc = "done" =>
                    /\ Len(call.log) = 2
                    /\ call.log[2].op = "vector.query_similar"
                    /\ call.result
                         = VectorOnlyResult(call.query, call.result.vector_chunks)))

C2_Witness ==
    /\ call.entry = "retrieve_with_fallback"
    /\ call.pc = "done"
    /\ call.log[1].out = "raise"
    /\ call.result.vector_chunks # <<>>

(***************************************************************************)
(* C3. A retrieve call with include_graph = false never invokes the model  *)
(* and never queries the graph store, and returns entities = [],           *)
(* graph_paths = [] and graph_context = ""; the entity extractor is        *)
(* invoked, exactly once, only when include_graph = true.                  *)
(***************************************************************************)
C3_NoGraphWorkWhenExcluded ==
    InRetrieve =>
        /\ (~call.include_graph =>
              /\ Count("llm.invoke") = 0
              /\ Count("_extract_entities") = 0
              /\ Count("graph.execute_query") = 0
              /\ call.pc # "raised"
              /\ (call.pc = "done" =>
                    /\ call.result.entities = <<>>
                    /\ call.result.graph_paths = <<>>
                    /\ call.result.graph_context = ""))
        /\ (call.include_graph /\ call.pc # "extract" =>
              /\ Count("_extract_entities") = 1
              /\ Count("llm.invoke") = 1)

C3_Witness ==
    /\ call.entry = "retrieve"
    /\ ~call.include_graph
    /\ call.pc = "done"
    /\ call.result.vector_chunks # <<>>

(***************************************************************************)
(* C4. Every retrieve call issues exactly one vector-store query, on the   *)
(* raw question text with the configured top-k, whatever include_graph and *)
(* the outcome of the extraction; if that query raises, vector_chunks = [] *)
(* and the call still goes through the graph stage and returns.            *)
(***************************************************************************)
C4_OneVectorQueryAndReturn ==
    InRetrieve /\ Terminated =>
        /\ Count("vector.query_similar") = 1
        /\ Events("vector.query_similar")[1].arg
             = [collection_name |-> CollectionName, query_text |-> call.query,
                n_results |-> VectorTopK]
        /\ (Events("vector.query_similar")[1].out = "raise" =>
              /\ call.result.vector_chunks = <<>>
              /\ call.pc = "done")

(***************************************************************************)
(* C5. When the extractor returns a non-empty entity sequence E, the       *)
(* result's entities are E, the neighbor finder is invoked exactly once    *)
(* for each element of E in extraction order, and the path finder is       *)
(* invoked exactly once, after all the neighbor lookups, with the whole E. *)
(***************************************************************************)
GraphInvocations ==
    SelectSeq(call.log, LAMBDA e : e.op \in {"_retrieve_graph_neighbors",
                                             "_get_paths_between_entities"})

C5_NeighborsPerEntityThenPaths ==
    InRetrieve /\ Terminated /\ call.entities # <<>> =>
        LET E == call.entities
            n == Len(E)
        IN /\ call.result.entities = E
           /\ Len(GraphInvocations) = n + 1
           /\ \A k \in 1..n :
                 /\ GraphInvocations[k].op = "_retrieve_graph_neighbors"
                 /\ GraphInvocations[k].arg = E[k]
           /\ GraphInvocations[n + 1].op = "_get_paths_between_entities"
           /\ GraphInvocations[n + 1].arg = E

C5_Witness ==
    /\ InRetrieve
    /\ call.pc = "done"
    /\ call.entities = <<"a", "b", "c">>
    /\ call.result.graph_paths # <<>>

(***************************************************************************)
(* C6. graph_context is non-empty only if one of entities, the neighbor    *)
(* records and graph_paths is non-empty; when no entity was extracted      *)
(* (extraction skipped or failed, or no array in the answer) the graph     *)
(* stage is skipped altogether: no graph query, graph_paths = [] and       *)
(* graph_context = "".                                                     *)
(***************************************************************************)
C6_GraphStageOnlyWithEntities ==
    InRetrieve =>
        /\ (call.result.graph_context # "" =>
              \/ call.result.entities # <<>>
              \/ call.all_neighbors # <<>>
              \/ call.result.graph_paths # <<>>)
        /\ (Terminated /\ call.entities = <<>> =>
              /\ call.pc = "done"
              /\ Count("graph.execute_query") = 0
              /\ Count("_retrieve_graph_neighbors") = 0
              /\ Count("_get_paths_between_entities") = 0
              /\ Count("_format_graph_context") = 0
              /\ call.result.graph_paths = <<>>
              /\ call.result.graph_context = "")

C6_Witness ==
    /\ InRetrieve
    /\ call.include_graph
    /\ call.pc = "done"
    /\ call.entities = <<>>
    /\ Count("llm.invoke") = 1
    /\ Events("llm.invoke")[1].out = "text"

(***************************************************************************)
(* The first syntactically valid JSON array inside a text.                 *)
(***************************************************************************)
ArraySpans(s) ==
    {sp \in (1..Len(s)) \X (1..Len(s)) :
        /\ sp[1] < sp[2]
        /\ s[sp[1]] = "[" /\ s[sp[2]] = "]"
        /\ JsonLoads(SubSeq(s, sp[1], sp[2])).ok}

HasJsonArray(s) == ArraySpans(s) # {}

FirstArrayElements(s) ==
    LET sp == CHOOSE a \in ArraySpans(s) :
                  \A b \in ArraySpans(s) :
                      a[1] < b[1] \/ (a[1] = b[1] /\ a[2] <= b[2])
        arr == JsonLoads(SubSeq(s, sp[1], sp[2])).val.v
    IN [k \in 1..Len(arr) |-> PyStr(arr[k])]

\* the bracketed substring the extractor found does not decode
DecodeFails(s) == ReSearch(s).found /\ ~JsonLoads(ReSearch(s).text).ok

(***************************************************************************)
(* C7. For every model answer that contains a syntactically valid JSON     *)
(* array, whatever prose precedes or follows it (prose with brackets       *)
(* included), the extractor returns exactly the elements of the first such *)
(* array, in order, each coerced to text.                                  *)
(***************************************************************************)
C7_ExtractorReturnsFirstArray ==
    fnPc = "done" /\ fnIn.kind = "text" /\ HasJsonArray(fnIn.text) =>
        fnOut = Returned(FirstArrayElements(fnIn.text))

(***************************************************************************)
(* C8. For a model answer with no valid JSON array, for a bracketed        *)
(* substring that fails to decode, and when the model call raises, the     *)
(* extractor returns the empty sequence; it never raises to its caller.    *)
(***************************************************************************)
C8_ExtractorDegradesToEmpty ==
    fnPc = "done" =>
        /\ ~fnOut.raised
        /\ (fnIn.kind = "raise" => fnOut.value = <<>>)
        /\ (fnIn.kind = "text" /\ ~HasJsonArray(fnIn.text) => fnOut.value = <<>>)
        /\ (fnIn.kind = "text" /\ DecodeFails(fnIn.text) => fnOut.value = <<>>)

C8_Witness ==
    /\ fnPc = "done"
    /\ fnIn.kind = "text"
    /\ DecodeFails(fnIn.text)
    /\ ~HasJsonArray(fnIn.text)
    /\ fnOut = Returned(<<>>)

(***************************************************************************)
(* C9. Every GraphPath the path finder builds from a row of the graph      *)
(* store, rows with missing or inconsistent fields included, has           *)
(* path_length = len(relationships) = len(nodes) - 1 and len(nodes) >= 1.  *)
(***************************************************************************)
C9_GraphPathLengthsAgree ==
    \A k \in 1..Len(call.result.graph_paths) :
        LET path == call.result.graph_paths[k] IN
        /\ path.path_length = Len(path.relationships)
        /\ Len(path.relationships) = Len(path.nodes) - 1
        /\ Len(path.nodes) >= 1

(***************************************************************************)
(* C10. The path finder, given fewer than two entities, returns no path    *)
(* and sends no query; so a retrieve call that extracts exactly one entity *)
(* sends exactly one graph query, the neighbor lookup, and no path query.  *)
(***************************************************************************)
C10_NoPathQueryBelowTwoEntities ==
    /\ (call.entry = "_get_paths_between_entities" /\ Len(call.entities) < 2 =>
          /\ call.pc = "done"
          /\ Count("graph.execute_query") = 0
          /\ call.result.graph_paths = <<>>)
    /\ (InRetrieve /\ Terminated /\ Len(call.entities) = 1 =>
          /\ Count("graph.execute_query") = 1
          /\ Events("graph.execute_query")[1].arg
               = BuildNeighborQuery(call.entities[1], GraphMaxHops)
          /\ Count("_get_paths_between_entities") = 1
          /\ call.result.graph_paths = <<>>)

C10_Witness ==
    /\ InRetrieve
    /\ call.pc = "done"
    /\ Len(call.entities) = 1
    /\ call.all_neighbors # <<>>
    /\ call.result.graph_context # ""

(***************************************************************************)
(* RetrievalResult.get_combined_context.  The value is                     *)
(* [raised, sections |-> the list the method builds, text |-> its return]. *)
(***************************************************************************)
DocumentsHeader == "## Relevant Documents"
GraphHeader == "\n## Knowledge Graph Relationships"
PathsHeader == "\n## Graph Paths"

\* f"{i}. {chunk}" for i, chunk in enumerate(self.vector_chunks, 1)
ChunkLines(vector_chunks) ==
    [i \in 1..Len(vector_chunks) |-> ToString(i) \o ". " \o vector_chunks[i]]

RECURSIVE PathBullets(_, _)
\* f"- {path.to_string()}" for path in self.graph_paths; [raised, value]
PathBullets(paths, lines) ==
    IF paths = <<>> THEN [raised |-> FALSE, value |-> lines]
    ELSE LET text == to_string(Head(paths)) IN
         IF text.raised THEN [raised |-> TRUE, value |-> lines]
         ELSE PathBullets(Tail(paths), Append(lines, "- " \o text.value))

\* a renderer that writes the paths section before the graph relationships
GetCombinedContextPathsFirst(result) ==
    LET docs == IF result.vector_chunks # <<>>
                THEN <<DocumentsHeader>> \o ChunkLines(result.vector_chunks) ELSE <<>>
        graph == IF result.graph_context # ""
                 THEN <<GraphHeader, result.graph_context>> ELSE <<>>
        bullets == PathBullets(result.graph_paths, <<>>)
        paths == IF result.graph_paths # <<>> THEN <<PathsHeader>> \o bullets.value
                 ELSE <<>>
    IN [raised |-> bullets.raised, sections |-> docs \o paths \o graph,
        text |-> Join(docs \o paths \o graph, "\n")]

GetCombinedContext(result) ==
    LET docs == IF result.vector_chunks # <<>>
                THEN <<DocumentsHeader>> \o ChunkLines(result.vector_chunks) ELSE <<>>
        graph == IF result.graph_context # ""
                 THEN <<GraphHeader, result.graph_context>> ELSE <<>>
        bullets == PathBullets(result.graph_paths, <<>>)
        paths == IF result.graph_paths # <<>> THEN <<PathsHeader>> \o bullets.value
                 ELSE <<>>
        sections == docs \o graph \o paths
    IN IF bullets.raised THEN [raised |-> TRUE, sections |-> <<>>, text |-> ""]
       ELSE [raised |-> FALSE, sections |-> sections, text |-> Join(sections, "\n")]

(***************************************************************************)
(* SpecContext: get_combined_context applied to RetrievalResult values     *)
(* whose fields have their declared types.                                 *)
(***************************************************************************)
ChunkTexts == {"Document about Singapore strike", ""}
GraphContexts ==
    {"", "Singapore -> FlowChips -> GlobalTech",
     "- A --[OPERATES_AT]--> B\n- Path: A -[SHIPS_TO]-> X -[SUPPLIES]-> B"}
TypedPaths ==
    { GraphPath(<<Str("A"), Str("X"), Str("B")>>,
                <<Str("SHIPS_TO"), Str("SUPPLIES")>>, 2),
      GraphPath(<<Str("A")>>, <<>>, 0),
      GraphPath(<<>>, <<>>, 0) }

ResultValues ==
    {[query |-> "test query", vector_chunks |-> ch, graph_context |-> g,
      entities |-> <<"Singapore">>, graph_paths |-> ps] :
        ch \in SeqsUpTo(ChunkTexts, MaxChunks), g \in GraphContexts,
        ps \in SeqsUpTo(TypedPaths, MaxPaths)}

InitContext ==
    /\ retriever = NewRetriever
    /\ call = IdleFrame
    /\ calls = <<>>
    /\ fnIn \in ResultValues
    /\ fnOut = [raised |-> FALSE, sections |-> <<>>, text |-> ""]
    /\ fnPc = "ready"

ApplyContext ==
    /\ fnPc = "ready"
    /\ fnOut' = GetCombinedContext(fnIn)
    /\ fnPc' = "done"
    /\ UNCHANGED <<retriever, call, calls, fnIn>>

NextContext == ApplyContext

SpecContext == InitContext /\ [][NextContext]_vars

(***************************************************************************)
(* C11. The combined context holds the documents section iff vector_chunks *)
(* is non-empty, the graph-relationships section iff graph_context is      *)
(* non-empty and the graph-paths section iff graph_paths is non-empty; the *)
(* sections present come in the order documents, graph relationships,      *)
(* graph paths; a result with all three empty gives the empty string.      *)
(***************************************************************************)
\* the places of a header among the sections written
Places(header) == {k \in 1..Len(fnOut.sections) : fnOut.sections[k] = header}

C11_SectionsPresentAndOrdered ==
    fnPc = "done" =>
        /\ ~fnOut.raised
        /\ fnOut.text = Join(fnOut.sections, "\n")
        /\ (Places(DocumentsHeader) # {}) = (fnIn.vector_chunks # <<>>)
        /\ (Places(GraphHeader) # {}) = (fnIn.graph_context # "")
        /\ (Places(PathsHeader) # {}) = (fnIn.graph_paths # <<>>)
        /\ Cardinality(Places(DocumentsHeader)) <= 1
        /\ Cardinality(Places(GraphHeader)) <= 1
        /\ Cardinality(Places(PathsHeader)) <= 1
        /\ \A d \in Places(DocumentsHeader) :
              /\ d = 1
              /\ \A g \in Places(GraphHeader) \cup Places(PathsHeader) : d < g
        /\ \A g \in Places(GraphHeader) : \A q \in Places(PathsHeader) : g < q
        /\ (fnIn.vector_chunks = <<>> /\ fnIn.graph_context = ""
              /\ fnIn.graph_paths = <<>> => fnOut.text = "")

C11_Witness ==
    /\ fnPc = "done"
    /\ Places(DocumentsHeader) # {}
    /\ Places(GraphHeader) # {}
    /\ Places(PathsHeader) # {}

(***************************************************************************)
(* SpecFormat: _format_graph_context applied to neighbor records and paths *)
(* as the graph store can return them.                                     *)
(***************************************************************************)
SourceNames == {"a", "a-b", "c"}
TargetNames == {"c", "b-c", "a"}
RelLists == {<<>>, <<Str("OPERATES_AT")>>, <<Str("AFFECTS"), Str("DEPENDS_ON")>>}

NeighborRecords ==
    {Row([source |-> Str(s), target |-> Str(t), relationships |-> r,
          path_length |-> 1]) : s \in SourceNames, t \in TargetNames, r \in RelLists}
    \cup {NeighborOther, NeighborNoName}

FormatPaths ==
    { <<>>, <<PathOfRow(PathRowGood)>>,
      <<PathOfRow(PathRowInconsistent), PathOfRow(PathRowEmpty)>>,
      <<PathOfRow(PathRowNoName)>> }

InitFormat ==
    /\ retriever = NewRetriever
    /\ call = IdleFrame
    /\ calls = <<>>
    /\ fnIn \in [neighbors : SeqsUpTo(NeighborRecords, MaxNeighbors), paths : FormatPaths]
    /\ fnOut = [raised |-> FALSE, value |-> ""]
    /\ fnPc = "ready"

ApplyFormat ==
    /\ fnPc = "ready"
    /\ fnOut' = FormatGraphContext(fnIn.neighbors, fnIn.paths)
    /\ fnPc' = "done"
    /\ UNCHANGED <<retriever, call, calls, fnIn>>

NextFormat == ApplyFormat

SpecFormat == InitFormat /\ [][NextFormat]_vars

(***************************************************************************)
(* Vocabulary of the claims about the formatter.                           *)
(***************************************************************************)
\* the record names both endpoints
Named(rec) ==
    /\ IsDict(rec)
    /\ Truthy(Get(rec.v, "source", Str("")))
    /\ Truthy(Get(rec.v, "target", Str("")))

SourceOf(rec) == Get(rec.v, "source", Str("")).v
TargetOf(rec) == Get(rec.v, "target", Str("")).v

\* the line of one named record: labels joined by " -> ", RELATED without labels
RecordLine(rec) ==
    LET rels == Get(rec.v, "relationships", <<>>)
    IN NeighborLine(SourceOf(rec),
                    IF rels = <<>> THEN "RELATED" ELSE JoinPy(rels, " -> ").value,
                    TargetOf(rec))

\* the lines of the records at the places K, in input order
LinesAt(neighbors, K) ==
    LET F[i \in 0..Len(neighbors)] ==
            IF i = 0 THEN <<>>
            ELSE IF i \in K THEN Append(F[i - 1], RecordLine(neighbors[i]))
            ELSE F[i - 1]
    IN F[Len(neighbors)]

\* one line per path, in input order
LinesOfPaths(paths) == [k \in 1..Len(paths) |-> "- Path: " \o to_string(paths[k]).value]

\* the text made of the records at the places K followed by the paths
TextOf(neighbors, K, paths) == Join(LinesAt(neighbors, K) \o LinesOfPaths(paths), "\n")

\* places of the named records that are the first with their pair of endpoints
\* in either direction
FirstOfUnorderedPair(neighbors) ==
    {i \in 1..Len(neighbors) :
        /\ Named(neighbors[i])
        /\ \A j \in 1..(i - 1) :
              Named(neighbors[j]) =>
                  {SourceOf(neighbors[j]), TargetOf(neighbors[j])}
                      # {SourceOf(neighbors[i]), TargetOf(neighbors[i])}}

(***************************************************************************)
(* C12. The formatter de-duplicates neighbor records by the unordered pair *)
(* of endpoints: of the records with the same two endpoints, in either     *)
(* direction and whatever their relationship lists, only the first gives a *)
(* line, and the lines keep the input order of the first occurrences.      *)
(***************************************************************************)
C12_DedupByUnorderedPair ==
    fnPc = "done" /\ ~fnOut.raised =>
        fnOut.value = TextOf(fnIn.neighbors, FirstOfUnorderedPair(fnIn.neighbors),
                             fnIn.paths)

(***************************************************************************)
(* SpecConc: NumCalls calls of retrieve / retrieve_with_fallback on the    *)
(* same retriever, for different questions, their sub-calls interleaved in *)
(* every order.  Each call's locals (result, entities, all_neighbors, the  *)
(* loop position) are its frame; calls[t] also keeps the frame the call    *)
(* entered with and the responses its sub-calls received.                  *)
(***************************************************************************)
Callers == 1..NumCalls

\* the question of caller t: a different one for each
QuestionOf(t) == "q" \o ToString(t)

\* what the model and the stores answer to the next sub-call of the frame c;
\* the graph store's neighbors depend on the entity looked up
ConcResponses(c) ==
    CASE c.pc = "extract" ->
            { LLMRaise,
              LLMText(<<"[", "\"", "a", "\"", ",", "\"", "b", "\"", "]">>) }
      [] c.pc = "vector" ->
            { StoreRows(<<Row([id |-> Str("doc1"),
                               document |-> Str("Singapore strike")])>>) }
      [] c.pc = "neighbors" ->
            { StoreRaise,
              IF c.entities[c.i] = "a" THEN StoreRows(<<NeighborAB>>)
              ELSE StoreRows(<<NeighborBC, NeighborAB2>>) }
      [] c.pc = "paths" -> { StoreRows(<<PathRowGood>>), StoreRows(<<PathRowNoName>>) }
      [] OTHER -> {}

\* the next sub-call of a call in flight, made on the frame c
StepBy(r, c, response) ==
    CASE c.pc = "extract" -> ExtractStep(c, response)
      [] c.pc = "vector" -> VectorStep(r, c, response)
      [] c.pc = "neighbors" -> NeighborStep(r, c, response)
      [] c.pc = "paths" -> PathsStep(r, c, response)
      [] OTHER -> c

\* a retriever that keeps the locals of retrieve in one place for all calls
FrameOfShared(cs, t) == cs[1].frame

\* the locals of call t: each invocation of retrieve has its own
FrameOf(cs, t) == cs[t].frame

NotEntered == [start |-> IdleFrame, frame |-> IdleFrame, seen |-> <<>>]
Entered(c) == [start |-> c, frame |-> c, seen |-> <<>>]

InitConc ==
    /\ retriever = NewRetriever
    /\ call = IdleFrame
    /\ calls = [t \in Callers |-> NotEntered]
    /\ fnIn = <<>>
    /\ fnOut = <<>>
    /\ fnPc = "unused"

\* caller t calls retrieve(query, include_graph)
ConcRetrieve ==
    /\ \E t \in Callers, include_graph \in BOOLEAN :
          /\ FrameOf(calls, t).pc = "idle"
          /\ calls' = [calls EXCEPT ![t] =
                 Entered(RetrieveEnter(IdleFrame, "retrieve", QuestionOf(t),
                                       include_graph))]
    /\ UNCHANGED <<retriever, call, fnIn, fnOut, fnPc>>

\* caller t calls retrieve_with_fallback(query)
ConcRetrieveWithFallback ==
    /\ \E t \in Callers, probe \in ProbeOutcomes :
          /\ FrameOf(calls, t).pc = "idle"
          /\ calls' = [calls EXCEPT ![t] =
                 Entered(FallbackEnter(IdleFrame, QuestionOf(t), probe))]
    /\ UNCHANGED <<retriever, call, fnIn, fnOut, fnPc>>

\* the call of caller t makes its next sub-call
ConcStep ==
    /\ \E t \in Callers :
          \E response \in ConcResponses(FrameOf(calls, t)) :
              calls' = [calls EXCEPT
                           ![t].frame = StepBy(retriever, FrameOf(calls, t), response),
                           ![t].seen = Append(@, response)]
    /\ UNCHANGED <<retriever, call, fnIn, fnOut, fnPc>>

NextConc == ConcRetrieve \/ ConcRetrieveWithFallback \/ ConcStep

SpecConc == InitConc /\ [][NextConc]_vars

RECURSIVE Alone(_, _, _)
\* the frame of a call run alone from the frame c against the responses seen
Alone(r, c, seen) ==
    IF seen = <<>> THEN c ELSE Alone(r, StepBy(r, c, Head(seen)), Tail(seen))

(***************************************************************************)
(* C13. In every interleaving of two or more retrieve /                    *)
(* retrieve_with_fallback calls for different questions, no call writes    *)
(* state shared with another (the retriever's fields stay as constructed)  *)
(* and each call is where, and returns what, it would alone against the    *)
(* same sub-call responses: its query, entities, vector_chunks,            *)
(* graph_paths and graph_context hold no data of another call.             *)
(***************************************************************************)
C13_CallsAreIsolated ==
    /\ retriever = NewRetriever
    /\ \A t \in Callers :
          /\ calls[t].frame = Alone(retriever, calls[t].start, calls[t].seen)
          /\ calls[t].frame.pc # "idle" =>
                /\ calls[t].frame.result.query = QuestionOf(t)
                /\ calls[t].start.query = QuestionOf(t)

\* two calls in the middle of their graph stages at once, the second ahead
C13_Witness ==
    /\ calls[1].frame.pc = "neighbors"
    /\ calls[1].frame.i = 2
    /\ calls[2].frame.pc = "paths"
    /\ calls[2].frame.all_neighbors # <<>>

(***************************************************************************)
(* C14. format(neighbors, paths) returns the newline-joined neighbor lines *)
(* followed by the path lines: each kept record gives the line             *)
(* "- source --[rel1 -> rel2 -> ...]--> target" (RELATED without labels),  *)
(* then each path gives exactly one line, in input order, holding its      *)
(* rendering by to_string; no neighbors and no paths give the empty        *)
(* string.                                                                 *)
(***************************************************************************)
\* the places of the records that name both endpoints
NamedPlaces(neighbors) == {i \in 1..Len(neighbors) : Named(neighbors[i])}

C14_FormatIsLinesThenPaths ==
    fnPc = "done" =>
        /\ ~fnOut.raised
        /\ \E K \in SUBSET NamedPlaces(fnIn.neighbors) :
              fnOut.value = TextOf(fnIn.neighbors, K, fnIn.paths)
        /\ (fnIn.neighbors = <<>> /\ fnIn.paths = <<>> => fnOut.value = "")

(***************************************************************************)
(* C19. De-duplication never suppresses a record whose (source, target)    *)
(* pair differs from the pair of every earlier record: N records with      *)
(* non-empty names and pairwise different pairs, names holding the '-'     *)
(* character included, give exactly N neighbor lines.                      *)
(***************************************************************************)
\* every record names both endpoints and no two have the same pair
DistinctPairs(neighbors) ==
    /\ \A i \in 1..Len(neighbors) : Named(neighbors[i])
    /\ \A i, j \in 1..Len(neighbors) :
          i # j => <<SourceOf(neighbors[i]), TargetOf(neighbors[i])>>
                       # <<SourceOf(neighbors[j]), TargetOf(neighbors[j])>>

C19_DistinctPairsAllPrinted ==
    fnPc = "done" /\ ~fnOut.raised /\ DistinctPairs(fnIn.neighbors) =>
        fnOut.value = TextOf(fnIn.neighbors, 1..Len(fnIn.neighbors), fnIn.paths)

(***************************************************************************)
(* SpecPaths: _get_paths_between_entities applied to every entity sequence *)
(* of at most MaxEntities names and every response of the graph store.     *)
(* The value is [paths |-> the paths returned, log |-> the queries sent].  *)
(***************************************************************************)
InitPaths ==
    /\ retriever = NewRetriever
    /\ call = IdleFrame
    /\ calls = <<>>
    /\ fnIn \in [entities : EntitySeqs, response : PathResponses]
    /\ fnOut = [paths |-> <<>>, log |-> <<>>]
    /\ fnPc = "ready"

ApplyPaths ==
    /\ fnPc = "ready"
    /\ fnOut' = GetPathsLogged(retriever, fnIn.entities, fnIn.response)
    /\ fnPc' = "done"
    /\ UNCHANGED <<retriever, call, calls, fnIn>>

NextPaths == ApplyPaths

SpecPaths == InitPaths /\ [][NextPaths]_vars

(***************************************************************************)
(* C15. On any failure during path finding, the store's query raising or a *)
(* returned row failing to convert into a GraphPath, the path finder       *)
(* returns an empty sequence and does not raise: no partly accumulated     *)
(* paths are returned.                                                     *)
(***************************************************************************)
\* the query raises, or some row is not a mapping that converts
PathFindingFails(response) ==
    \/ response.kind = "raise"
    \/ \E k \in 1..Len(response.rows) : ~IsDict(response.rows[k])

C15_FailureGivesNoPaths ==
    fnPc = "done" /\ PathQueryIssued(fnIn.entities) /\ PathFindingFails(fnIn.response) =>
        fnOut.paths = <<>>

(***************************************************************************)
(* C17. The path finder with two or more entities sends exactly one        *)
(* shortest-path query, bounded to max_hops + 1 hops, anchored at the      *)
(* first two entities only: calls whose entity sequences agree on the      *)
(* first two elements send the same query and return the same paths,       *)
(* whatever the later entities are.                                        *)
(***************************************************************************)
\* the query for the anchors "a" and "b" under the configured max_hops of 2
PathQueryAB ==
    "MATCH (a), (b) WHERE a.name =~ '(?i).*a.*' AND b.name =~ '(?i).*b.*' "
    \o "MATCH path = shortestPath((a)-[*..3]-(b)) "
    \o "RETURN [n IN nodes(path) | n.name] AS nodes, "
    \o "[r IN relationships(path) | type(r)] AS relationships, "
    \o "length(path) AS path_length LIMIT 3"

C17_OneQueryOnFirstTwo ==
    fnPc = "done" /\ Len(fnIn.entities) >= 2 =>
        LET first == <<fnIn.entities[1], fnIn.entities[2]>> IN
        /\ Len(fnOut.log) = 1
        /\ fnOut.log[1].op = "graph.execute_query"
        /\ fnOut.log[1].arg = PathQuery(first, GraphMaxHops)
        /\ (first = <<"a", "b">> => fnOut.log[1].arg = PathQueryAB)
        /\ \A other \in EntitySeqs :
              Len(other) >= 2 /\ <<other[1], other[2]>> = first =>
                  GetPathsLogged(retriever, other, fnIn.response) = fnOut

C17_Witness ==
    /\ fnPc = "done"
    /\ fnIn.entities = <<"a", "b", "a">>
    /\ fnOut.paths # <<>>
    /\ Len(fnOut.log) = 1

(***************************************************************************)
(* C16. The neighbor records handed to the formatter are the               *)
(* concatenation, in entity-extraction order, of each entity's lookup      *)
(* result in the order the store returned it; a lookup whose store call    *)
(* raises contributes an empty sequence, never raises past the finder, and *)
(* prevents neither the lookups of the remaining entities nor the path     *)
(* finder from running.                                                    *)
(***************************************************************************)
\* the records of the first n lookups of a call, from the responses it
\* received: the answers to _extract_entities and _retrieve_vector come first
LookupRecords(seen, n) ==
    LET rows(k) == IF seen[2 + k].kind = "raise" THEN <<>> ELSE seen[2 + k].rows
        F[k \in 0..n] == IF k = 0 THEN <<>> ELSE F[k - 1] \o rows(k)
    IN F[n]

\* the events of the frame's log made by op
FrameEvents(c, op) == SelectSeq(c.log, LAMBDA e : e.op = op)

C16_NeighborsConcatenated ==
    \A t \in Callers :
        LET c == calls[t].frame
            seen == calls[t].seen
            n == Len(c.entities)
        IN c.entities # <<>> /\ c.pc \in {"neighbors", "paths", "done", "raised"} =>
              /\ c.i - 1 = Len(FrameEvents(c, "_retrieve_graph_neighbors"))
              /\ \A k \in 1..(c.i - 1) :
                    FrameEvents(c, "_retrieve_graph_neighbors")[k].arg = c.entities[k]
              /\ c.all_neighbors = LookupRecords(seen, c.i - 1)
              /\ (c.pc = "neighbors") = (c.i <= n)
              /\ (c.pc \in {"done", "raised"} =>
                    Len(FrameEvents(c, "_get_paths_between_entities")) = 1)
              /\ (c.pc = "done" =>
                    c.result.graph_context
                        = FormatGraphContext(LookupRecords(seen, n),
                                             c.result.graph_paths).value)

\* a call that returned after its first lookup failed and its second did not
C16_Witness ==
    /\ calls[1].frame.pc = "done"
    /\ Len(calls[1].seen) = 5
    /\ calls[1].seen[3] = StoreRaise
    /\ calls[1].seen[4] = StoreRows(<<NeighborBC, NeighborAB2>>)
    /\ calls[1].frame.all_neighbors = <<NeighborBC, NeighborAB2>>
    /\ calls[1].frame.result.graph_paths # <<>>

(***************************************************************************)
(* The queries as the graph store reads them.  A query text is a sequence  *)
(* of pieces: the quote character is a piece of its own, an entity text is *)
(* a sequence of pieces, and the fixed text between them is one piece.     *)
(***************************************************************************)
Quote == "'"

\* _build_neighbor_query: the f-string, piece by piece
NeighborQueryPieces(entity, max_hops) ==
    <<"MATCH (n) WHERE n.name =~ ", Quote, "(?i).*">> \o entity \o <<".*", Quote,
      " MATCH path = (n)-[*1.." \o ToString(max_hops) \o "]-(neighbor) "
      \o "WHERE neighbor <> n "
      \o "RETURN DISTINCT n.name AS source, neighbor.name AS target, "
      \o "[r IN relationships(path) | type(r)] AS relationships, "
      \o "length(path) AS path_length ORDER BY path_length LIMIT 10">>

\* the f-string of _get_paths_between_entities, piece by piece
PathQueryPieces(entities, max_hops) ==
    <<"MATCH (a), (b) WHERE a.name =~ ", Quote, "(?i).*">> \o entities[1]
    \o <<".*", Quote, " AND b.name =~ ", Quote, "(?i).*">> \o entities[2]
    \o <<".*", Quote,
         " MATCH path = shortestPath((a)-[*.." \o ToString(max_hops + 1) \o "]-(b)) "
         \o "RETURN [n IN nodes(path) | n.name] AS nodes, "
         \o "[r IN relationships(path) | type(r)] AS relationships, "
         \o "length(path) AS path_length LIMIT 3">>

\* self._graph.execute_query(query): the text, and no parameters beside it
ExecuteQuery(query) == [query |-> query, parameters |-> {}]

\* the text of a sequence of pieces
TextOfPieces(pieces) == Join(pieces, "")

RECURSIVE Structure(_, _)
\* what the store parses: the pieces outside string literals, each literal
\* standing as "<literal>"; a literal runs from a quote to the next quote
Structure(pieces, inLiteral) ==
    IF pieces = <<>> THEN (IF inLiteral THEN <<"<unterminated>">> ELSE <<>>)
    ELSE IF Head(pieces) = Quote
         THEN IF inLiteral THEN <<"<literal>">> \o Structure(Tail(pieces), FALSE)
              ELSE Structure(Tail(pieces), TRUE)
    ELSE IF inLiteral THEN Structure(Tail(pieces), TRUE)
    ELSE <<Head(pieces)>> \o Structure(Tail(pieces), FALSE)

(***************************************************************************)
(* SpecQuery: the neighbor query of one entity and the path query of two,  *)
(* for entity texts that hold letters, quotes and query-language keywords. *)
(***************************************************************************)
WriteClause == " DETACH DELETE n //"
EntityPieces == {"a", Quote, WriteClause}
EntityTexts == SeqsUpTo(EntityPieces, MaxEntityLen)

InitQuery ==
    /\ retriever = NewRetriever
    /\ call = IdleFrame
    /\ calls = <<>>
    /\ fnIn \in [first : EntityTexts, second : EntityTexts]
    /\ fnOut = <<>>
    /\ fnPc = "ready"

\* the two queries a retrieve call sends for the entities first, second
ApplyQuery ==
    /\ fnPc = "ready"
    /\ fnOut' = [neighbor |-> ExecuteQuery(
                                NeighborQueryPieces(fnIn.first, retriever._max_hops)),
                 path |-> ExecuteQuery(
                            PathQueryPieces(<<fnIn.first, fnIn.second>>,
                                            retriever._max_hops))]
    /\ fnPc' = "done"
    /\ UNCHANGED <<retriever, call, calls, fnIn>>

NextQuery == ApplyQuery

SpecQuery == InitQuery /\ [][NextQuery]_vars

\* the pieces spell the texts that BuildNeighborQuery and PathQuery build
QueryPiecesSpellQueries ==
    fnPc = "done" =>
        /\ TextOfPieces(fnOut.neighbor.query)
             = BuildNeighborQuery(TextOfPieces(fnIn.first), GraphMaxHops)
        /\ TextOfPieces(fnOut.path.query)
             = PathQuery(<<TextOfPieces(fnIn.first), TextOfPieces(fnIn.second)>>,
                         GraphMaxHops)

(***************************************************************************)
(* C18. For every entity text the extractor can return, quotes and         *)
(* query-language keywords included, every query sent to the graph store   *)
(* is a read operation: the entity text goes to the store as a bound       *)
(* parameter and never changes the structure of the neighbor query or of   *)
(* the path query.                                                         *)
(***************************************************************************)
\* the write clause stands outside every literal of the query
WritesIn(query) ==
    \E k \in 1..Len(Structure(query, FALSE)) : Structure(query, FALSE)[k] = WriteClause

C18_EntityNeverChangesQuery ==
    fnPc = "done" =>
        /\ Structure(fnOut.neighbor.query, FALSE)
             = Structure(NeighborQueryPieces(<<"a">>, GraphMaxHops), FALSE)
        /\ Structure(fnOut.path.query, FALSE)
             = Structure(PathQueryPieces(<<<<"a">>, <<"a">>>>, GraphMaxHops), FALSE)
        /\ ~WritesIn(fnOut.neighbor.query)
        /\ ~WritesIn(fnOut.path.query)
        /\ fnOut.neighbor.parameters # {}
        /\ fnOut.path.parameters # {}

=============================================================================
